---- MODULE Spec2Model ----
(***************************************************************************)
(* A model of the GPU path tracer's host program: main (src/src/main.rs),  *)
(* connect_to_gpu (src/src/main.rs) and PathTracer (src/src/render.rs).    *)
(* The window system, the adapter, the device and the presentation engine  *)
(* are the environment: every answer they can give is a nondeterministic   *)
(* choice.                                                                 *)
(***************************************************************************)
EXTENDS Integers, Sequences, FiniteSets, TLC

\* ------------------------------------------------------------------ bounds
\* Longest capability list the adapter reports.
MaxCaps == 3
\* Redraw signals delivered in one run.
MaxFrames == 3
\* Largest display scale factor (physical size = logical size * scale).
MaxScale == 2

\* ------------------------------------------------------- program constants
WIDTH == 960
HEIGHT == 544
\* desired_maximum_frame_latency of the surface configuration
FrameLatency == 3
\* render_pass.draw(0..6, 0..1)
DrawVertices == 6
DrawInstances == 1
\* std::mem::size_of::<Uniforms>(): two u32 fields, repr(C)
UniformsSize == 8

\* ---------------------------------------------------------------- formats
\* Texture formats a surface may report; the first two are the accepted ones.
Formats == {"Rgba8Unorm", "Bgra8Unorm", "Rgba8UnormSrgb", "Rgba16Float"}
AlphaModes == {"Opaque", "PreMultiplied"}

\* matches!(it, Rgba8Unorm | Bgra8Unorm)
Accepted(it) == it \in {"Rgba8Unorm", "Bgra8Unorm"}

None == "None"

\* A plausible slip: scan for Rgba8Unorm first, then for Bgra8Unorm.
RECURSIVE FindOne(_, _)
FindOne(formats, want) ==
  IF formats = <<>> THEN None
  ELSE IF Head(formats) = want THEN want
  ELSE FindOne(Tail(formats), want)

FindPreferRgba(formats) ==
  IF FindOne(formats, "Rgba8Unorm") # None THEN "Rgba8Unorm"
  ELSE FindOne(formats, "Bgra8Unorm")

\* A plausible slip: a default stands in for the missing format.
RECURSIVE FindOrDefault(_)
FindOrDefault(formats) ==
  IF formats = <<>> THEN "Bgra8Unorm"
  ELSE IF Accepted(Head(formats)) THEN Head(formats)
  ELSE FindOrDefault(Tail(formats))

\* caps.formats.into_iter().find(|it| matches!(it, Rgba8Unorm | Bgra8Unorm))
RECURSIVE Find(_)
Find(formats) ==
  IF formats = <<>> THEN None
  ELSE IF Accepted(Head(formats)) THEN Head(formats)
  ELSE Find(Tail(formats))

\* Every capability list of at most MaxCaps formats.
CapLists == UNION {[1..n -> Formats] : n \in 0..MaxCaps}

\* ------------------------------------------------------------- uniforms
\* The native (little-endian) bytes of a u32.
U32Bytes(x) ==
  << x % 256, (x \div 256) % 256, (x \div 65536) % 256, (x \div 16777216) % 256 >>

\* A plausible slip: the fields are copied in the wrong order.
BytesOfSwapped(u) == U32Bytes(u.height) \o U32Bytes(u.width)

\* bytemuck::bytes_of(&uniforms): width then height, no padding
BytesOf(u) == U32Bytes(u.width) \o U32Bytes(u.height)

\* The u32 held in four bytes starting at offset off (0-based).
U32At(data, off) ==
  data[off + 1] + 256 * data[off + 2] + 65536 * data[off + 3]
    + 16777216 * data[off + 4]

\* What a reader of the buffer (the fragment stage) sees as Uniforms.
ReadUniforms(data) == [width |-> U32At(data, 0), height |-> U32At(data, 4)]

Zeroes(n) == [i \in 1..n |-> 0]

\* ------------------------------------------------------------- the target
Pixels == {1, 2}
BLACK == "BLACK"
\* What an image of the presentation engine may hold when it is handed out.
PriorColors == {"BLACK", "stale"}
\* What the fragment stage writes: the shader is an opaque asset.
SHADED == "shaded"


\* The geometry of the vertex stage: vertices 0..2 form the triangle that
\* holds pixel 1, vertices 3..5 the one that holds pixel 2.
Rasterized(vertices, instances) ==
  IF instances < 1 THEN {} ELSE {p \in Pixels : p <= vertices \div 3}

Cmd(op, a, b) == [op |-> op, a |-> a, b |-> b]

\* A plausible slip: the pass keeps what the target held.
DisplayLoadKeep == "Load"

\* load: wgpu::LoadOp::Clear(wgpu::Color::BLACK)
DisplayLoad == "Clear"

\* store: wgpu::StoreOp::Store
DisplayStore == "Store"

\* The commands render_frame records, in recording order.
RecordFrame(r) ==
  << Cmd("begin_render_pass", DisplayLoad, DisplayStore),
     Cmd("set_pipeline", r.display_pipeline, 0),
     Cmd("set_bind_group", 0, r.display_bind_group),
     Cmd("draw", DrawVertices, DrawInstances),
     Cmd("end_render_pass", 0, 0) >>

Px(src, color) == [src |-> src, color |-> color]

\* The state the queue starts a command buffer in, for a target image.
ExecStart(image) ==
  [target |-> image, att |-> image, store |-> "Store", inpass |-> FALSE,
   pipeline |-> 0, group |-> 0]

\* One recorded command, executed. kept: the pixels whose fragment the
\* fragment stage does not discard.
ExecOne(st, c, kept) ==
  CASE c.op = "begin_render_pass" ->
         [st EXCEPT !.inpass = TRUE, !.store = c.b,
                    !.att = IF c.a = "Clear"
                            THEN [p \in Pixels |-> Px("clear", BLACK)]
                            ELSE st.target]
    [] c.op = "set_pipeline" -> [st EXCEPT !.pipeline = c.a]
    [] c.op = "set_bind_group" -> [st EXCEPT !.group = c.b]
    [] c.op = "draw" ->
         IF st.inpass /\ st.pipeline # 0 /\ st.group # 0
         THEN [st EXCEPT !.att =
                 [p \in Pixels |->
                    IF p \in Rasterized(c.a, c.b) \cap kept
                    THEN Px("draw", SHADED) ELSE st.att[p]]]
         ELSE st
    [] c.op = "end_render_pass" ->
         [st EXCEPT !.inpass = FALSE,
                    !.target = IF st.store = "Store" THEN st.att
                               ELSE [p \in Pixels |-> Px("undefined", "stale")]]
    [] OTHER -> st

RECURSIVE ExecFrom(_, _, _)
ExecFrom(st, cmds, kept) ==
  IF cmds = <<>> THEN st
  ELSE ExecFrom(ExecOne(st, Head(cmds), kept), Tail(cmds), kept)

\* The target image after the queue has executed the command buffer.
Execute(cmds, image, kept) == ExecFrom(ExecStart(image), cmds, kept).target


\* ------------------------------------------------------------------ state
VARIABLES
  pc,              \* where main is
  err,             \* the error main returned, or the panic message
  windowSize,      \* window.inner_size(): <<width, height>>
  caps,            \* connect_to_gpu's caps, while connect_to_gpu runs
  format,          \* the negotiated texture format
  surfaceConfig,   \* the surface's configuration
  configures,      \* how many times surface.configure ran
  errorCallback,   \* whether on_uncaptured_error is registered
  pipelines,       \* the device's render pipelines
  bind_groups,     \* the device's bind groups
  buffers,         \* the device's buffers
  renderer,        \* the PathTracer
  controlFlow,     \* the event loop's control flow
  exiting,         \* control_handle.exit() was called
  closeDelivered,  \* a CloseRequested event was delivered
  redrawRequested, \* window.request_redraw() is pending
  frame,           \* the SurfaceTexture of the frame being handled
  submitted,       \* the command buffer submitted last
  redraws,         \* RedrawRequested events delivered
  acquires,        \* successful get_current_texture calls
  submits,         \* queue.submit calls
  presents,        \* frame.present calls
  gpuPending       \* submitted command buffers the GPU has not completed

vars ==
  << pc, err, windowSize, caps, format, surfaceConfig, configures,
     errorCallback, pipelines, bind_groups, buffers, renderer, controlFlow,
     exiting, closeDelivered, redrawRequested, frame, submitted, redraws,
     acquires, submits, presents, gpuPending >>

\* What connect_to_gpu works on.
connectVars == << caps, format, surfaceConfig, configures >>
\* What PathTracer::new builds.
deviceVars == << errorCallback, pipelines, bind_groups, buffers, renderer >>
\* What the event loop and its handler work on.
loopVars ==
  << controlFlow, exiting, closeDelivered, redrawRequested, frame, submitted,
     redraws, acquires, submits, presents, gpuPending >>

NoCaps == [formats |-> <<>>, alpha_modes |-> <<>>]
NoConfig == [configured |-> FALSE]
NoRenderer == [built |-> FALSE]
NoFrame == [acquired |-> FALSE]

Init ==
  /\ pc = "main"
  /\ err = None
  /\ windowSize = << 0, 0 >>
  /\ caps = NoCaps
  /\ format = None
  /\ surfaceConfig = NoConfig
  /\ configures = 0
  /\ errorCallback = FALSE
  /\ pipelines = <<>>
  /\ bind_groups = <<>>
  /\ buffers = <<>>
  /\ renderer = NoRenderer
  /\ controlFlow = "Wait"
  /\ exiting = FALSE
  /\ closeDelivered = FALSE
  /\ redrawRequested = FALSE
  /\ frame = NoFrame
  /\ submitted = <<>>
  /\ redraws = 0
  /\ acquires = 0
  /\ submits = 0
  /\ presents = 0
  /\ gpuPending = 0

FormatError == "Couldn't find preferred texture format (Rgba8Unorm or Bgra8Unorm)"
EventLoopError == "event loop error"

\* `?` on an Err: main returns the error as a value.
ReturnErr(context) == pc' = "returned_err" /\ err' = context

\* A panic: expect(), an index out of bounds, the uncaptured-error callback.
Panic(message) == pc' = "panicked" /\ err' = message

\* ------------------------------------------------------- session set-up
\* EventLoop::new()? and WindowBuilder ... .build(&event_loop)?
BuildWindow ==
  /\ pc = "main"
  /\ \/ /\ \E scale \in 1..MaxScale :
             windowSize' = << WIDTH * scale, HEIGHT * scale >>
        /\ pc' = "create_surface"
        /\ err' = err
     \/ /\ ReturnErr("os error")
        /\ windowSize' = windowSize
  /\ UNCHANGED << connectVars, deviceVars, loopVars >>

\* instance.create_surface(window)?
CreateSurface ==
  /\ pc = "create_surface"
  /\ \/ pc' = "request_adapter" /\ err' = err
     \/ ReturnErr("create surface error")
  /\ UNCHANGED << windowSize, connectVars, deviceVars, loopVars >>

\* instance.request_adapter(..).await.context(..)?
RequestAdapter ==
  /\ pc = "request_adapter"
  /\ \/ pc' = "request_device" /\ err' = err
     \/ ReturnErr("Failed to find a compatible adapter")
  /\ UNCHANGED << windowSize, connectVars, deviceVars, loopVars >>

\* adapter.request_device(..).await.context(..)?
RequestDevice ==
  /\ pc = "request_device"
  /\ \/ pc' = "get_capabilities" /\ err' = err
     \/ ReturnErr("Failed to connect to the GPU")
  /\ UNCHANGED << windowSize, connectVars, deviceVars, loopVars >>

\* let caps = surface.get_capabilities(&adapter): any list of formats, and at
\* least one alpha mode.
GetCapabilities ==
  /\ pc = "get_capabilities"
  /\ \E fs \in CapLists, n \in 1..2 : \E as \in [1..n -> AlphaModes] :
       caps' = [formats |-> fs, alpha_modes |-> as]
  /\ pc' = "find_format"
  /\ UNCHANGED << err, windowSize, format, surfaceConfig, configures,
                  deviceVars, loopVars >>

\* let format = caps.formats.into_iter().find(..).context(..)?
\* (the state main returns the error in still shows the rejected list)
FindFormat ==
  /\ pc = "find_format"
  /\ IF Find(caps.formats) = None
     THEN /\ ReturnErr(FormatError)
          /\ UNCHANGED << format, caps >>
     ELSE /\ format' = Find(caps.formats)
          /\ pc' = "configure"
          /\ UNCHANGED << err, caps >>
  /\ UNCHANGED << windowSize, surfaceConfig, configures, deviceVars, loopVars >>

\* The wgpu::SurfaceConfiguration connect_to_gpu builds.
SurfaceConfiguration(fmt, size, alpha_modes) ==
  [configured |-> TRUE,
   usage |-> "RENDER_ATTACHMENT",
   format |-> fmt,
   width |-> size[1],
   height |-> size[2],
   present_mode |-> "AutoVsync",
   desired_maximum_frame_latency |-> FrameLatency,
   alpha_mode |-> alpha_modes[1],
   view_formats |-> <<>>]

\* let size = window.inner_size(); surface.configure(&device, &config);
\* Ok((device, queue, surface, format))
ConfigureSurface ==
  /\ pc = "configure"
  /\ IF caps.alpha_modes = <<>>
     THEN /\ Panic("index out of bounds")
          /\ UNCHANGED << surfaceConfig, configures >>
     ELSE /\ surfaceConfig' =
               SurfaceConfiguration(format, windowSize, caps.alpha_modes)
          /\ configures' = configures + 1
          /\ pc' = "new"
          /\ err' = err
  /\ caps' = NoCaps
  /\ UNCHANGED << windowSize, format, deviceVars, loopVars >>


\* ------------------------------------------------------ PathTracer::new
\* A plausible slip: the pipeline's color target is a fixed format.
create_display_pipeline_fixed(fmt) ==
  [label |-> "display", topology |-> "TriangleList", front_face |-> "Ccw",
   polygon_mode |-> "Fill", format |-> "Bgra8Unorm", blend |-> None,
   bindings |-> 1]

\* create_display_pipeline(device, shader_module, format): the pipeline; its
\* layout holds one bind-group layout with one uniform-buffer binding.
create_display_pipeline(fmt) ==
  [label |-> "display", topology |-> "TriangleList", front_face |-> "Ccw",
   polygon_mode |-> "Fill", format |-> fmt, blend |-> None,
   bindings |-> 1]

\* device.create_buffer(..) with mapped_at_creation: true
CreateBuffer(label, size) ==
  [label |-> label, size |-> size, mapped |-> TRUE, data |-> Zeroes(size),
   writes |-> 0]

\* get_mapped_range_mut().copy_from_slice(bytes): the lengths must agree and
\* the buffer must be mapped.
CanCopy(b, bytes) == b.mapped /\ Len(bytes) = b.size

CopyFromSlice(b, bytes) == [b EXCEPT !.data = bytes, !.writes = b.writes + 1]

\* uniform_buffer.unmap()
Unmap(b) == [b EXCEPT !.mapped = FALSE]

\* The uniform buffer PathTracer::new leaves behind.
NewUniformBuffer(u) ==
  Unmap(CopyFromSlice(CreateBuffer("uniforms", UniformsSize), BytesOf(u)))

\* render::PathTracer::new(device, queue, physical_size.width,
\* physical_size.height, format)
NewPathTracer ==
  /\ pc = "new"
  /\ errorCallback' = TRUE
  /\ LET uniforms == [width |-> windowSize[1], height |-> windowSize[2]]
     IN \E shaderOk \in BOOLEAN :
          IF shaderOk /\ CanCopy(CreateBuffer("uniforms", UniformsSize),
                                 BytesOf(uniforms))
          THEN /\ pipelines' = Append(pipelines, create_display_pipeline(format))
               /\ buffers' = Append(buffers, NewUniformBuffer(uniforms))
               /\ bind_groups' =
                    Append(bind_groups,
                           [binding |-> 0, buffer |-> Len(buffers) + 1,
                            offset |-> 0])
               /\ renderer' =
                    [built |-> TRUE, device |-> "device", queue |-> "queue",
                     uniforms |-> uniforms,
                     uniform_buffer |-> Len(buffers) + 1,
                     display_pipeline |-> Len(pipelines) + 1,
                     display_bind_group |-> Len(bind_groups) + 1]
               /\ pc' = "loop"
               /\ err' = err
          ELSE /\ Panic("Aborting due to an error")
               /\ UNCHANGED << pipelines, bind_groups, buffers, renderer >>
  /\ UNCHANGED << windowSize, connectVars, loopVars >>

\* ------------------------------------------------------- the event loop
\* The event loop calls the closure for every event it dispatches;
\* control_handle.exit() raises a flag the loop reads once the events of the
\* current iteration have been dispatched.

\* A plausible slip: the close request is dropped.
CloseIgnored == exiting' = exiting

\* WindowEvent::CloseRequested => control_handle.exit()
CloseRequested == exiting' = TRUE

\* A plausible slip: another window event falls into the redraw arm.
OtherRedraws == pc' = "get_current_texture"

\* _ => (), and events that are no WindowEvent
OtherEvent == pc' = "loop"

DeliverCloseRequested ==
  /\ pc = "loop"
  /\ controlFlow' = "Poll"
  /\ closeDelivered' = TRUE
  /\ CloseRequested
  /\ UNCHANGED << pc, err, windowSize, connectVars, deviceVars,
                  redrawRequested, frame, submitted, redraws, acquires,
                  submits, presents, gpuPending >>

\* WindowEvent::RedrawRequested: asked for by request_redraw, or by the
\* window system for a newly shown window.
DeliverRedrawRequested ==
  /\ pc = "loop"
  /\ redraws < MaxFrames
  /\ controlFlow' = "Poll"
  /\ redrawRequested' = FALSE
  /\ redraws' = redraws + 1
  /\ pc' = "get_current_texture"
  /\ UNCHANGED << err, windowSize, connectVars, deviceVars, exiting,
                  closeDelivered, frame, submitted, acquires, submits,
                  presents, gpuPending >>

\* Any other event; a change of the scale factor changes the window's
\* physical size.
DeliverOther ==
  /\ pc = "loop"
  /\ controlFlow' = "Poll"
  /\ \E scale \in 1..MaxScale :
       windowSize' = << WIDTH * scale, HEIGHT * scale >>
  /\ OtherEvent
  /\ UNCHANGED << err, connectVars, deviceVars, exiting, closeDelivered,
                  redrawRequested, frame, submitted, redraws, acquires,
                  submits, presents, gpuPending >>

\* event_loop.run(..)? returns once exit was requested; Ok(())
LoopExit ==
  /\ pc = "loop"
  /\ exiting
  /\ pc' = "returned_ok"
  /\ UNCHANGED << err, windowSize, connectVars, deviceVars, loopVars >>


\* --------------------------------------- the RedrawRequested arm, by step
\* The statement that follows each statement of the arm.
\* A plausible slip: frame.present() is written before render_frame.
AfterAcquirePresent == "present"

AfterAcquire == "render_frame"

\* surface.get_current_texture().expect("Failed to get current texture"):
\* the engine hands out an image with whatever it held.
GetCurrentTexture ==
  /\ pc = "get_current_texture"
  /\ \/ /\ \E prior \in [Pixels -> PriorColors] :
             frame' = [acquired |-> TRUE, rendered |-> FALSE, prior |-> prior,
                       pixels |-> [p \in Pixels |-> Px("prior", prior[p])]]
        /\ acquires' = acquires + 1
        /\ pc' = AfterAcquire
        /\ err' = err
     \/ /\ Panic("Failed to get current texture")
        /\ UNCHANGED << frame, acquires >>
  /\ UNCHANGED << windowSize, connectVars, deviceVars, controlFlow, exiting,
                  closeDelivered, redrawRequested, submitted, redraws,
                  submits, presents, gpuPending >>

\* The pipeline renders into a target of its own color format only; anything
\* else is a validation error, which the uncaptured-error callback turns
\* into a panic.
TargetValid(r) ==
  /\ r.display_pipeline \in DOMAIN pipelines
  /\ r.display_bind_group \in DOMAIN bind_groups
  /\ pipelines[r.display_pipeline].format = surfaceConfig.format
  /\ ~buffers[bind_groups[r.display_bind_group].buffer].mapped

\* render_frame(&self, target), given what it leaves of the device's buffers
\* and of the renderer: it records the pass into a new encoder, finishes it
\* and submits the command buffer.
render_frame(buffersAfter, rendererAfter) ==
  /\ pc = "render_frame"
  /\ \E deviceOk \in BOOLEAN, kept \in SUBSET Pixels :
       IF deviceOk /\ TargetValid(renderer)
       THEN /\ submitted' = RecordFrame(renderer)
            /\ frame' = [frame EXCEPT
                 !.rendered = TRUE,
                 !.pixels = Execute(RecordFrame(renderer), frame.pixels, kept)]
            /\ submits' = submits + 1
            /\ gpuPending' = gpuPending + 1
            /\ pc' = "present"
            /\ err' = err
       ELSE /\ Panic("Aborting due to an error")
            /\ UNCHANGED << submitted, frame, submits, gpuPending >>
  /\ buffers' = buffersAfter
  /\ renderer' = rendererAfter
  /\ UNCHANGED << windowSize, connectVars, errorCallback, pipelines,
                  bind_groups, controlFlow, exiting, closeDelivered,
                  redrawRequested, redraws, acquires, presents >>

\* A plausible slip: the uniform buffer is built again for every frame.
RenderFrameAllocates ==
  render_frame(Append(buffers, NewUniformBuffer(renderer.uniforms)),
               [renderer EXCEPT !.uniform_buffer = Len(buffers) + 1])

\* let render_target = frame.texture.create_view(..);
\* renderer.render_frame(&render_target)
RenderFrame == render_frame(buffers, renderer)

\* frame.present()
Present ==
  /\ pc = "present"
  /\ presents' = presents + 1
  /\ frame' = NoFrame
  /\ pc' = "request_redraw"
  /\ UNCHANGED << err, windowSize, connectVars, deviceVars, controlFlow,
                  exiting, closeDelivered, redrawRequested, submitted,
                  redraws, acquires, submits, gpuPending >>

\* window.request_redraw()
RequestRedraw ==
  /\ pc = "request_redraw"
  /\ redrawRequested' = TRUE
  /\ pc' = "loop"
  /\ UNCHANGED << err, windowSize, connectVars, deviceVars, controlFlow,
                  exiting, closeDelivered, frame, submitted, redraws,
                  acquires, submits, presents, gpuPending >>

\* The GPU completes a submitted command buffer, at its own pace, while the
\* process lives.
GpuComplete ==
  /\ pc \notin {"returned_ok", "returned_err", "panicked"}
  /\ gpuPending > 0
  /\ gpuPending' = gpuPending - 1
  /\ UNCHANGED << pc, err, windowSize, connectVars, deviceVars, controlFlow,
                  exiting, closeDelivered, redrawRequested, frame, submitted,
                  redraws, acquires, submits, presents >>

\* event_loop.run(..)?: the event loop fails, and main returns its error.
LoopError ==
  /\ pc = "loop"
  /\ ReturnErr(EventLoopError)
  /\ UNCHANGED << windowSize, connectVars, deviceVars, loopVars >>

Handler == GetCurrentTexture \/ RenderFrame \/ Present \/ RequestRedraw

\* main up to the event loop: the window, connect_to_gpu.
SetupNext ==
  \/ BuildWindow
  \/ CreateSurface
  \/ RequestAdapter
  \/ RequestDevice
  \/ GetCapabilities
  \/ FindFormat
  \/ ConfigureSurface

\* PathTracer::new, the event loop and the GPU.
RunNext ==
  \/ NewPathTracer
  \/ DeliverCloseRequested
  \/ DeliverRedrawRequested
  \/ DeliverOther
  \/ LoopExit
  \/ LoopError
  \/ GetCurrentTexture
  \/ RenderFrame
  \/ Present
  \/ RequestRedraw
  \/ GpuComplete

Next == SetupNext \/ RunNext

Spec == Init /\ [][Next]_vars

\* The closure runs to its end once called, and an iteration of the event
\* loop dispatches finitely many events before the loop reads the exit flag.
FairSpec == Spec /\ WF_vars(Handler) /\ SF_vars(LoopExit)

\* PathTracer::new as a function of its arguments: main is about to call it
\* with any of these widths and heights and either accepted format, on a
\* surface configured likewise.
\* (the model checker's integers end at 2^31 - 1)
U32Samples == {1, 255, 256, 65535, 65536, 16777216, 2147483647}

NewInit ==
  /\ pc = "new"
  /\ err = None
  /\ windowSize \in U32Samples \X U32Samples
  /\ caps = NoCaps
  /\ format \in {f \in Formats : Accepted(f)}
  /\ surfaceConfig = SurfaceConfiguration(format, windowSize, << "Opaque" >>)
  /\ configures = 1
  /\ errorCallback = FALSE
  /\ pipelines = <<>>
  /\ bind_groups = <<>>
  /\ buffers = <<>>
  /\ renderer = NoRenderer
  /\ controlFlow = "Wait"
  /\ exiting = FALSE
  /\ closeDelivered = FALSE
  /\ redrawRequested = FALSE
  /\ frame = NoFrame
  /\ submitted = <<>>
  /\ redraws = 0
  /\ acquires = 0
  /\ submits = 0
  /\ presents = 0
  /\ gpuPending = 0

NewSpec == NewInit /\ [][RunNext]_vars


\* =================================================================== claims
HasAccepted(formats) == \E i \in DOMAIN formats : Accepted(formats[i])

\* The accepted format with the smallest index of a list that holds one.
FirstAccepted(formats) ==
  formats[CHOOSE i \in DOMAIN formats :
            /\ Accepted(formats[i])
            /\ \A j \in 1..(i - 1) : ~Accepted(formats[j])]

\* C1: for every capability list that holds an accepted format, the search
\* yields the accepted format with the smallest index, whichever of the two
\* it is, and that is the format connect_to_gpu goes on with.
C1_FirstAcceptedSelected ==
  /\ (pc = "find_format" /\ HasAccepted(caps.formats))
       => Find(caps.formats) = FirstAccepted(caps.formats)
  /\ pc = "configure"
       => HasAccepted(caps.formats) /\ format = FirstAccepted(caps.formats)

\* Bgra8Unorm is selected although Rgba8Unorm is in the list too, behind it.
C1_Witness ==
  /\ pc = "configure"
  /\ caps.formats = << "Rgba16Float", "Bgra8Unorm", "Rgba8Unorm" >>
  /\ format = "Bgra8Unorm"

\* C2: for every capability list without an accepted format (the empty list
\* too) connect_to_gpu returns the format error as a value, and in a run
\* that returned an error the surface was never configured, no renderer was
\* built and no frame was acquired, submitted or presented.
C2_NoFormatIsSetupError ==
  /\ [][(pc = "find_format" /\ ~HasAccepted(caps.formats))
          => (pc' = "returned_err" /\ err' = FormatError)]_vars
  /\ [](pc = "returned_err" /\ err # EventLoopError
          => /\ configures = 0 /\ surfaceConfig = NoConfig
             /\ renderer = NoRenderer /\ frame = NoFrame
             /\ acquires = 0 /\ submits = 0 /\ presents = 0)
  /\ [][pc = "returned_err" => pc' = "returned_err"]_vars

\* A non-empty list without an accepted format was rejected.
C2_Witness ==
  /\ pc = "returned_err"
  /\ err = FormatError
  /\ caps.formats = << "Rgba16Float", "Rgba8UnormSrgb" >>

\* C3: whenever the handler is not running, as many command buffers were
\* submitted and as many frames presented as redraw signals were delivered;
\* while it runs, the submissions and presentations are those of the
\* signals handled before plus at most the one of the signal in hand. Other
\* events add none.
C3_OnePairPerRedraw ==
  /\ (pc \in {"loop", "returned_ok"} \/ err = EventLoopError)
       => submits = redraws /\ presents = redraws
  /\ presents <= submits
  /\ submits <= redraws
  /\ redraws <= presents + 1

C3_Witness ==
  /\ pc = "loop"
  /\ redraws = MaxFrames
  /\ submits = MaxFrames
  /\ presents = MaxFrames

\* C4: within a frame the steps run acquire, render_frame (submit), present,
\* request redraw; at most one acquired target is not yet presented; the
\* target handed to render_frame is the one acquired in this handling, it is
\* rendered once, and render_frame neither acquires nor presents.
C4_FrameOrder ==
  /\ presents <= submits
  /\ submits <= acquires
  /\ acquires <= presents + 1
  /\ frame.acquired <=> acquires = presents + 1
  /\ pc = "render_frame"
       => frame.acquired /\ ~frame.rendered /\ submits = presents
  /\ pc = "present"
       => frame.acquired /\ frame.rendered /\ submits = acquires
  /\ pc = "request_redraw"
       => ~frame.acquired /\ presents = acquires /\ ~redrawRequested
  /\ pc \in {"loop", "returned_ok"}
       => /\ ~frame.acquired
          /\ acquires = submits /\ submits = presents
          /\ redrawRequested <=> redraws > 0

C4_Witness ==
  /\ pc = "request_redraw"
  /\ acquires = 2 /\ submits = 2 /\ presents = 2


\* C5: once the renderer is built there is exactly one render pipeline, one
\* bind group and one buffer, and no step (render_frame among them) changes
\* a field of the renderer or an object of the device.
C5_NoPerFrameObjects ==
  /\ [](renderer.built
          => Len(pipelines) = 1 /\ Len(bind_groups) = 1 /\ Len(buffers) = 1)
  /\ [][renderer.built
          => /\ renderer' = renderer
             /\ pipelines' = pipelines
             /\ bind_groups' = bind_groups
             /\ buffers' = buffers]_vars

C5_Witness ==
  /\ renderer.built
  /\ submits = MaxFrames
  /\ Len(pipelines) = 1 /\ Len(bind_groups) = 1 /\ Len(buffers) = 1

\* The main states in which the session is established.
Established ==
  pc \in {"new", "loop", "get_current_texture", "render_frame", "present",
          "request_redraw", "returned_ok"}

\* C6: the surface is configured once, in connect_to_gpu, with the window's
\* physical size and the negotiated format, before any frame is acquired or
\* presented; the configuration never changes afterwards, and its format is
\* the color-target format of the display pipeline.
C6_ConfiguredOnce ==
  /\ [](configures <= 1)
  /\ []((acquires > 0 \/ presents > 0 \/ Established)
          => configures = 1 /\ surfaceConfig.configured)
  /\ [](pc = "new" => /\ surfaceConfig.width = windowSize[1]
                      /\ surfaceConfig.height = windowSize[2])
  /\ [](surfaceConfig.configured
          => surfaceConfig.format = format /\ Accepted(format))
  /\ [](renderer.built
          => /\ pipelines[renderer.display_pipeline].format = surfaceConfig.format
             /\ surfaceConfig.width = renderer.uniforms.width
             /\ surfaceConfig.height = renderer.uniforms.height)
  /\ [][surfaceConfig.configured => surfaceConfig' = surfaceConfig]_vars

\* A frame is presented on the first configuration although the window's
\* physical size has changed since.
C6_Witness ==
  /\ presents > 0
  /\ configures = 1
  /\ surfaceConfig.format = "Rgba8Unorm"
  /\ surfaceConfig.width # windowSize[1]

\* C7: the uniform buffer is written once, while mapped at construction, and
\* unmapped; in every later state it reads back as the width and height the
\* constructor was given.
C7_UniformsRoundTrip ==
  renderer.built
    => LET b == buffers[renderer.uniform_buffer]
       IN /\ b.writes = 1
          /\ ~b.mapped
          /\ b.size = UniformsSize /\ Len(b.data) = UniformsSize
          /\ ReadUniforms(b.data) = renderer.uniforms
          /\ ReadUniforms(b.data) =
               [width |-> surfaceConfig.width, height |-> surfaceConfig.height]
          /\ renderer.uniforms.width > 0 /\ renderer.uniforms.height > 0

\* After MaxFrames frames: a width of 2^31 - 1, a height of 256.
C7_Witness ==
  /\ renderer.built
  /\ submits = MaxFrames
  /\ renderer.uniforms = [width |-> 2147483647, height |-> 256]
  /\ buffers[renderer.uniform_buffer].data = << 255, 255, 255, 127, 0, 1, 0, 0 >>

\* The positions of the commands of a kind in a command buffer.
Positions(cmds, op) == {i \in DOMAIN cmds : cmds[i].op = op}

\* C8: in the command buffer render_frame submits, the pass begins with the
\* clear load and the store, the single draw of 6 vertices and 1 instance
\* comes after it and before the end of the pass; after the call every pixel
\* of the target is the clear color or was written by the draw, whatever the
\* target held before.
C8_ClearBeforeDraw ==
  /\ submits > 0
       => /\ Cardinality(Positions(submitted, "draw")) = 1
          /\ Cardinality(Positions(submitted, "begin_render_pass")) = 1
          /\ \A d \in Positions(submitted, "draw") :
               /\ submitted[d].a = 6 /\ submitted[d].b = 1
               /\ \E c \in Positions(submitted, "begin_render_pass") :
                    /\ c < d
                    /\ submitted[c].a = "Clear" /\ submitted[c].b = "Store"
               /\ \E e \in Positions(submitted, "end_render_pass") : d < e
  /\ pc = "present"
       => \A p \in Pixels :
            \/ frame.pixels[p] = Px("clear", BLACK)
            \/ frame.pixels[p] = Px("draw", SHADED)

\* The fragment of a pixel that held stale content was discarded: the pixel
\* is cleared; the other pixel was drawn.
C8_Witness ==
  /\ pc = "present"
  /\ frame.prior[1] = "stale"
  /\ frame.pixels[1] = Px("clear", BLACK)
  /\ frame.pixels[2] = Px("draw", SHADED)

Ended == pc \in {"returned_ok", "returned_err", "panicked"}

\* C10 as stated: a delivered close request leads to main returning
\* successfully, and once the close request was handled nothing more is
\* acquired, submitted or presented.
C10_Original ==
  /\ [][exiting => /\ acquires' = acquires
                   /\ submits' = submits
                   /\ presents' = presents]_vars
  /\ closeDelivered ~> (pc = "returned_ok")

\* C10, amended: the handler answers a close request by requesting the exit;
\* the loop then ends, and main returns Ok without the GPU's pending work
\* being awaited, unless a redraw dispatched before the loop ends panics or
\* the event loop fails; main returns Ok only after an exit request and with
\* no frame in hand.
C10_CloseExits ==
  /\ [](closeDelivered <=> exiting)
  /\ closeDelivered ~> Ended
  /\ [](pc = "returned_ok"
          => exiting /\ ~frame.acquired /\ acquires = presents)
  /\ [][Ended => (pc' = pc /\ acquires' = acquires /\ submits' = submits
                  /\ presents' = presents)]_vars

\* main has returned Ok while a submitted command buffer is still pending.
C10_Witness ==
  /\ pc = "returned_ok"
  /\ closeDelivered
  /\ gpuPending > 0

====
